---- MODULE Spec2Model ----
(***************************************************************************)
(* QlikWrapper (src/classes/qlik_wrapper.py): the JSON-RPC client over one *)
(* WebSocket, the document/handle resolver and the metadata enumerators.   *)
(*                                                                         *)
(* The client is a single sequential flow of control: `stack` is its call  *)
(* stack (top first), `ret` the value the last callee returned.  The       *)
(* engine and the channel are the environment: `wire` holds the requests   *)
(* transmitted and not yet answered, `srv` what the engine remembers, and  *)
(* every call of ws.receive() delivers one frame chosen by the             *)
(* environment.                                                            *)
(***************************************************************************)
EXTENDS Integers, Sequences, FiniteSets, TLC

VARIABLES
    ws,          \* self.ws: "None", "open" or "closed"
    session,     \* self.session (aiohttp ClientSession): "open" or "closed"
    msg_id,      \* self.msg_id
    app_handle,  \* self.app_handle
    app_id,      \* self.app_id
    stack,       \* call stack of the running top-level call, top first
    ret,         \* return value of the callee that returned last
    out,         \* outcome of the last finished top-level call
    wire,        \* requests transmitted on the channel, not yet answered
    srv,         \* engine state behind the current connection
    sentIds,     \* history: the id of every message _send built, in order
    issued,      \* history: every qHandle a delivered reply carried
    opLog,       \* history: the last finished resolver operation
    badFrames,   \* number of undecodable TEXT frames delivered so far
    handleOrigin,\* history: the connection self.app_handle was obtained on
    file,        \* FileWriterHelper: the lines of the file at file_path
    lines,       \* history: every line handed to _write_line, in order
    sheet        \* export_masteritems: the rows of sheet "Masteritems"

vars == <<ws, session, msg_id, app_handle, app_id, stack, ret, out,
          wire, srv, sentIds, issued, opLog, badFrames, handleOrigin,
          file, lines, sheet>>

----------------------------------------------------------------------------
(* Bounds of the model *)

MaxMsgId == 6
MaxItems == 2
MaxBadFrames == 1
MaxLines == 6

----------------------------------------------------------------------------
(* Python / JSON values *)

\* Python None where an object (dict, list) is expected
None == [none |-> TRUE]

\* Python None in an integer slot (self.app_handle = None, "handle": null)
NoHandle == 0 - 99

\* handle=-1 default of _send: the global handle
GlobalHandle == 0 - 1

\* {} : the empty dict
EmptyDict == [k \in {} |-> TRUE]

\* key in d
Has(d, k) == k \in DOMAIN d

\* d.get(k, default)
Get(d, k, default) == IF k \in DOMAIN d THEN d[k] ELSE default

\* handles the engine gives out: document, session object, master item
DocHandle == 1
ListHandle == 2
ItemHandle == 3

AppIds == {"app1"}

\* key of the item list in the layout of each list definition
ListKey(kind) ==
    CASE kind = "dimension" -> "qDimensionList"
      [] kind = "measure"   -> "qMeasureList"
      [] OTHER              -> "qVariableList"

\* the session object definitions of the four list enumerators
Definition(kind) ==
    CASE kind = "dimension" ->
           [qInfo |-> [qType |-> "DimensionList"],
            qDimensionListDef |-> [qType |-> "dimension",
               qData |-> [title |-> "/qMetaDef/title", tags |-> "/qMetaDef/tags",
                          definition |-> "/qDim/qFieldDefs"]]]
      [] kind = "measure" ->
           [qInfo |-> [qType |-> "MeasureList"],
            qMeasureListDef |-> [qType |-> "measure",
               qData |-> [title |-> "/qMetaDef/title", tags |-> "/qMetaDef/tags",
                          definition |-> "/qMeasure/qDef"]]]
      [] kind = "var" ->
           [qInfo |-> [qType |-> "VariableList"],
            qVariableListDef |-> [qType |-> "variable",
               qData |-> [tags |-> "/tags", title |-> "/title",
                          definition |-> "/definition"]]]
      [] OTHER ->
           [qInfo |-> [qType |-> "VariableList"],
            qVariableListDef |-> [qType |-> "variable",
               qData |-> [title |-> "/qMetaDef/title", tags |-> "/qMetaDef/tags",
                          definition |-> "/qDefinition"]]]

----------------------------------------------------------------------------
(* The engine: what it answers to a request *)

\* item-list key the engine fills for a session object of this qType
ServedKey(qType) ==
    CASE qType = "DimensionList" -> "qDimensionList"
      [] qType = "MeasureList"   -> "qMeasureList"
      [] OTHER                   -> "qVariableList"

\* the ids of the master items and variables of the app
ItemIds(key) ==
    CASE key = "qDimensionList" -> {"d1", "d2"}
      [] key = "qMeasureList"   -> {"m1"}
      [] OTHER                  -> {"v1", "v0"}

\* a summary item of a list layout; id "" stands for an item without qInfo,
\* "v0" is a variable whose qMeta is null
SummaryItem(id) ==
    IF id = "" THEN [qMeta |-> [title |-> "untitled"]]
    ELSE IF id = "v0"
    THEN [qInfo |-> [qId |-> id], qMeta |-> None,
          qName |-> "name " \o id, qDefinition |-> "def " \o id]
    ELSE [qInfo |-> [qId |-> id], qMeta |-> [title |-> "title " \o id],
          qName |-> "name " \o id, qDefinition |-> "def " \o id]

RECURSIVE SeqsUpTo(_, _)
SeqsUpTo(S, n) ==
    IF n = 0 THEN {<<>>}
    ELSE LET shorter == SeqsUpTo(S, n - 1)
         IN shorter \cup {Append(s, x) : s \in {t \in shorter : Len(t) = n - 1}, x \in S}

NoRepeat(s) == \A i, j \in DOMAIN s : i # j => s[i] # s[j]

\* the item lists the engine may hold for a list key
ItemLists(key) ==
    {[i \in DOMAIN s |-> SummaryItem(s[i])] :
        s \in {t \in SeqsUpTo(ItemIds(key) \cup {""}, MaxItems) : NoRepeat(t)}}

\* layout of a master item
ItemLayout(kind, id) ==
    IF kind = "dimension"
    THEN [qInfo |-> [qId |-> id],
          qMeta |-> [title |-> "title " \o id, tags |-> <<"tagA " \o id, "tagB">>],
          qDim  |-> [descriptionExpression |-> "desc " \o id,
                     qFieldDefs |-> "fields " \o id,
                     qLabelExpression |-> "label " \o id,
                     qGrouping |-> IF id = "d2" THEN "M" ELSE "N"]]
    ELSE [qInfo |-> [qId |-> id],
          qMeta |-> [title |-> "title " \o id, tags |-> <<"tagA " \o id, "tagB">>],
          qMeasure |-> [qDef |-> "=Sum(" \o id \o ")",
                        qLabelExpression |-> "label " \o id,
                        descriptionExpression |-> "desc " \o id]]

ErrorPayload == [message |-> "engine error"]

\* is the request one the engine can serve in its state
Servable(req, s) ==
    CASE req.method = "OpenDoc" -> TRUE
      [] req.method \in {"CreateSessionObject", "GetDimension", "GetMeasure"} ->
            s.doc /\ req.handle = DocHandle
      [] req.method = "GetLayout" ->
            \/ req.handle = ListHandle /\ s.list # "none"
            \/ req.handle = ItemHandle /\ s.item.kind # "none"
      [] OTHER -> FALSE

\* the result payloads the engine may put into a successful reply
Results(req, s) ==
    CASE req.method = "OpenDoc" -> {[qReturn |-> [qHandle |-> DocHandle]]}
      [] req.method = "CreateSessionObject" -> {[qReturn |-> [qHandle |-> ListHandle]]}
      [] req.method \in {"GetDimension", "GetMeasure"} ->
            {[qReturn |-> [qHandle |-> ItemHandle]]}
      [] req.method = "GetLayout" /\ req.handle = ListHandle ->
            {[qLayout |-> [k \in {s.list} |-> [qItems |-> items]]] :
                 items \in ItemLists(s.list)}
            \cup {[qLayout |-> [k \in {s.list} |-> EmptyDict]],
                  [qLayout |-> EmptyDict]}
      [] OTHER -> {[qLayout |-> ItemLayout(s.item.kind, s.item.id)]}

\* a result without the field the client reads next
BareResult(req) ==
    IF req.method = "GetLayout" THEN EmptyDict ELSE [qReturn |-> EmptyDict]

\* the reply envelopes the engine may give to a request: a result, an error,
\* both keys at once, or a result without the field the client reads next
Replies(req, s) ==
    IF ~Servable(req, s)
    THEN {[id |-> req.id, error |-> ErrorPayload]}
    ELSE {[id |-> req.id, result |-> r] : r \in Results(req, s)}
         \cup {[id |-> req.id, error |-> ErrorPayload]}
         \cup {[id |-> req.id, result |-> r, error |-> ErrorPayload] :
                  r \in Results(req, s)}
         \cup {[id |-> req.id, result |-> BareResult(req)]}

\* the engine state after it gave `data` as the reply to `req`
Served(req, s, data) ==
    IF Has(data, "error") \/ ~Has(data, "result") \/ data.result = BareResult(req)
    THEN s
    ELSE CASE req.method = "OpenDoc" -> [s EXCEPT !.doc = TRUE]
           [] req.method = "CreateSessionObject" ->
                 [s EXCEPT !.list = ServedKey(req.params.qProp.qInfo.qType)]
           [] req.method = "GetDimension" ->
                 [s EXCEPT !.item = [kind |-> "dimension", id |-> req.params.qId]]
           [] req.method = "GetMeasure" ->
                 [s EXCEPT !.item = [kind |-> "measure", id |-> req.params.qId]]
           [] OTHER -> s

NoServer == [doc |-> FALSE, list |-> "none", item |-> [kind |-> "none", id |-> ""]]

\* the qHandle a reply carries, if any
HandlesIn(data) ==
    IF Has(data, "result") /\ Has(data.result, "qReturn")
       /\ Has(data.result.qReturn, "qHandle")
    THEN {data.result.qReturn.qHandle} ELSE {}

----------------------------------------------------------------------------
(* The call stack *)

Running == stack # <<>>
Top == Head(stack)
In(fn, pc) == Running /\ Top.fn = fn /\ Top.pc = pc

\* the frame of a call of _receive; `skipped` is history: the loop has been
\* through a TEXT frame that it did not return
ReceiveFrame == [fn |-> "_receive", pc |-> "loop", skipped |-> FALSE]

\* the top frame moves to pc and calls `callee`
Call(callee, pc) == stack' = <<callee>> \o <<[Top EXCEPT !.pc = pc]>> \o Tail(stack)

\* the top frame becomes `frame` and the calls of `callees` (innermost first)
\* are put on top of it
CallChain(callees, frame) == stack' = callees \o <<frame>> \o Tail(stack)

\* the top frame returns v; a top-level call that returns leaves its outcome
Return(v) ==
    /\ stack' = Tail(stack)
    /\ ret' = IF Len(stack) = 1 THEN None ELSE v
    /\ out' = IF Len(stack) = 1
              THEN [op |-> Top.fn, status |-> "returned", val |-> v, seen |-> None]
              ELSE out

\* an exception no frame of the stack catches: the top-level call raises
Raise ==
    /\ stack' = <<>>
    /\ ret' = None
    /\ out' = [op |-> stack[Len(stack)].fn, status |-> "raised", val |-> None,
               seen |-> None]

NoLog == [fn |-> "none", step |-> 0, reply |-> None, failed |-> FALSE,
          val |-> None, h0 |-> NoHandle, h1 |-> NoHandle]

NoOutcome == [op |-> "none", status |-> "none", val |-> None, seen |-> None]

\* a resolver operation (one that awaits replies) returns: remember which of
\* its replies it returned on (the first or the second) and what _receive had
\* given it, whether it took a failure branch, what it returned and
\* self.app_handle before and after
Log(fn, step, failed, val, h1) ==
    opLog' = [fn |-> fn, step |-> step, reply |-> ret, failed |-> failed,
              val |-> val, h0 |-> app_handle, h1 |-> h1]

\* a top-level call begins: the histories of the previous one are dropped
Begin(frames) ==
    /\ ~Running
    /\ msg_id < MaxMsgId
    /\ stack' = frames
    /\ out' = NoOutcome
    /\ opLog' = NoLog

----------------------------------------------------------------------------
(* _send *)

NextMsgIdStale(m) == m

\* self.msg_id += 1
NextMsgId(m) == m + 1

Message(id, method, handle, params) ==
    [jsonrpc |-> "2.0", id |-> id, method |-> method, handle |-> handle,
     params |-> params]

_sendKeepsIdOnFailure(method, handle, params) ==
    \E sent \in (IF ws = "open" THEN BOOLEAN ELSE {FALSE}) :
       /\ msg_id' = IF sent THEN msg_id + 1 ELSE msg_id
       /\ sentIds' = Append(sentIds, msg_id + 1)
       /\ wire' = IF sent
                  THEN Append(wire, Message(msg_id + 1, method, handle, params))
                  ELSE wire

\* _send(method, handle, params): the id is taken and the message built; the
\* write reaches the channel unless ws.send_str raises (no ws, a closed ws, a
\* failed write), which is printed and swallowed
_send(method, handle, params) ==
    /\ msg_id' = NextMsgId(msg_id)
    /\ sentIds' = Append(sentIds, msg_id')
    /\ \E written \in (IF ws = "open" THEN BOOLEAN ELSE {FALSE}) :
          wire' = IF written
                  THEN Append(wire, Message(msg_id', method, handle, params))
                  ELSE wire

----------------------------------------------------------------------------
(* _receive: one step per frame that ws.receive() delivers *)

Receiving == In("_receive", "loop")

HasErrorAndNoResult(response) == Has(response, "error") /\ ~Has(response, "result")

\* 'error' in response
HasError(response) == Has(response, "error")

\* a TEXT frame with the reply to the oldest unanswered request
ReceiveReply ==
    /\ Receiving /\ ws = "open" /\ wire # <<>>
    /\ \E data \in Replies(Head(wire), srv) :
          /\ srv' = Served(Head(wire), srv, data)
          /\ issued' = issued \cup HandlesIn(data)
          /\ Return(data)
    /\ wire' = Tail(wire)
    /\ UNCHANGED <<ws, session, handleOrigin, file, lines, sheet, msg_id,
                   app_handle, app_id, sentIds, opLog, badFrames>>

ReceiveNotificationReturned ==
    /\ Receiving /\ ws = "open"
    /\ Return([jsonrpc |-> "2.0", method |-> "OnChange"])
    /\ UNCHANGED <<ws, session, handleOrigin, file, lines, sheet, msg_id,
                   app_handle, app_id, wire, srv, sentIds, issued, opLog,
                   badFrames>>

\* a TEXT frame with neither 'result' nor 'error' (a notification): loop on
ReceiveNotification ==
    /\ Receiving /\ ws = "open"
    /\ stack' = <<[Top EXCEPT !.skipped = TRUE]>> \o Tail(stack)
    /\ UNCHANGED <<ws, session, handleOrigin, file, lines, sheet, msg_id,
                   app_handle, app_id, ret, out, wire, srv, sentIds, issued,
                   opLog, badFrames>>

\* a TEXT frame that json.loads rejects: the except branch, None is returned
ReceiveBadText ==
    /\ Receiving /\ ws = "open"
    /\ badFrames < MaxBadFrames
    /\ badFrames' = badFrames + 1
    /\ Return(None)
    /\ UNCHANGED <<ws, session, handleOrigin, file, lines, sheet, msg_id,
                   app_handle, app_id, wire, srv, sentIds, issued, opLog>>

\* an ERROR frame (the library has closed the connection): break, None
ReceiveError ==
    /\ Receiving /\ ws = "open"
    /\ ws' = "closed"
    /\ Return(None)
    /\ UNCHANGED <<session, handleOrigin, file, lines, sheet, msg_id,
                   app_handle, app_id, wire, srv, sentIds, issued, opLog,
                   badFrames>>

\* a CLOSE frame: neither branch of the loop matches, the loop goes on
ReceiveClose ==
    /\ Receiving /\ ws = "open"
    /\ ws' = "closed"
    /\ UNCHANGED <<session, handleOrigin, file, lines, sheet, msg_id,
                   app_handle, app_id, stack, ret, out, wire, srv, sentIds,
                   issued, opLog, badFrames>>

\* receive() on a closed connection yields CLOSED at once: the loop goes on
ReceiveClosed ==
    /\ Receiving /\ ws = "closed"
    /\ UNCHANGED vars

ReceiveNoWsMakesError ==
    /\ Receiving /\ ws = "None"
    /\ Return([error |-> [message |-> "not connected"]])
    /\ UNCHANGED <<ws, session, handleOrigin, file, lines, sheet, msg_id,
                   app_handle, app_id, wire, srv, sentIds, issued, opLog,
                   badFrames>>

\* self.ws is None: AttributeError, the except branch, None is returned
ReceiveNoWs ==
    /\ Receiving /\ ws = "None"
    /\ Return(None)
    /\ UNCHANGED <<ws, session, handleOrigin, file, lines, sheet, msg_id,
                   app_handle, app_id, wire, srv, sentIds, issued, opLog,
                   badFrames>>

_receive ==
    \/ ReceiveReply \/ ReceiveNotification \/ ReceiveBadText \/ ReceiveError
    \/ ReceiveClose \/ ReceiveClosed \/ ReceiveNoWs

----------------------------------------------------------------------------
(* connect and _open_doc *)

\* response["result"]["qReturn"]["qHandle"] can be read
HasQHandle(response) ==
    /\ Has(response, "result")
    /\ Has(response.result, "qReturn")
    /\ Has(response.result.qReturn, "qHandle")

QHandleOfDocument(response) == DocHandle

\* response["result"]["qReturn"]["qHandle"]
QHandle(response) == response.result.qReturn.qHandle

\* a first reply the caller goes on from: not None (TypeError, caught), no
\* 'error' key, and a qHandle to read (else KeyError, caught)
Usable(response) ==
    response # None /\ ~HasError(response) /\ HasQHandle(response)

\* where self.app_handle comes from once self.ws is a new connection: what
\* was obtained before was obtained on an earlier connection
Earlier(origin) == IF origin = "none" THEN "none" ELSE "earlier"

\* connect(app_id): ws_connect raises (printed, connect returns) or gives a
\* new connection, on which _open_doc is called
connect ==
    /\ ~Running
    /\ msg_id < MaxMsgId
    /\ \E a \in AppIds : app_id' = a
    /\ opLog' = NoLog
    /\ \/ /\ out' = [op |-> "connect", status |-> "returned", val |-> None,
                     seen |-> None]
          /\ UNCHANGED <<ws, stack, wire, srv, handleOrigin>>
       \/ /\ session = "open"
          /\ ws' = "open"
          /\ wire' = <<>>
          /\ srv' = NoServer
          /\ stack' = <<[fn |-> "_open_doc", pc |-> "start"]>>
          /\ out' = NoOutcome
          /\ handleOrigin' = Earlier(handleOrigin)
    /\ UNCHANGED <<session, file, lines, sheet, msg_id, app_handle, ret,
                   sentIds, issued, badFrames>>

\* _open_doc: send OpenDoc on the global handle and await the reply
OpenDocSend ==
    /\ In("_open_doc", "start")
    /\ _send("OpenDoc", GlobalHandle, [qDocName |-> app_id])
    /\ Call(ReceiveFrame, "reply")
    /\ UNCHANGED <<ws, session, handleOrigin, file, lines, sheet, app_handle,
                   app_id, ret, out, srv, issued, opLog, badFrames>>

\* self.app_handle after _open_doc has looked at the reply
OpenDocHandle(response, old) ==
    IF response = None THEN old            \* TypeError, caught
    ELSE IF HasError(response) THEN old    \* logged, return
    ELSE IF HasQHandle(response) THEN QHandle(response)
    ELSE old                               \* KeyError, caught

OpenDocReply ==
    /\ In("_open_doc", "reply")
    /\ app_handle' = OpenDocHandle(ret, app_handle)
    /\ Log("_open_doc", 1, ~Usable(ret), None, app_handle')
    /\ handleOrigin' = IF Usable(ret) THEN "current" ELSE handleOrigin
    /\ Return(None)
    /\ UNCHANGED <<ws, session, file, lines, sheet, msg_id, app_id, wire,
                   srv, sentIds, issued, badFrames>>

----------------------------------------------------------------------------
(* _get_layout *)

GetLayoutFrame(definition) ==
    [fn |-> "_get_layout", pc |-> "start", definition |-> definition]

GetLayoutCreate ==
    /\ In("_get_layout", "start")
    /\ _send("CreateSessionObject", app_handle, [qProp |-> Top.definition])
    /\ Call(ReceiveFrame, "created")
    /\ UNCHANGED <<ws, session, handleOrigin, file, lines, sheet, app_handle,
                   app_id, ret, out, srv, issued, opLog, badFrames>>

GetLayoutCreated ==
    /\ In("_get_layout", "created")
    /\ IF Usable(ret)
       THEN /\ _send("GetLayout", QHandle(ret), EmptyDict)
            /\ Call(ReceiveFrame, "layout")
            /\ UNCHANGED <<ret, out, opLog>>
       ELSE /\ Log("_get_layout", 1, TRUE, None, app_handle)
            /\ Return(None)
            /\ UNCHANGED <<msg_id, wire, sentIds>>
    /\ UNCHANGED <<ws, session, handleOrigin, file, lines, sheet, app_handle,
                   app_id, srv, issued, badFrames>>

LayoutResultKeepsError(layout_response) == layout_response

\* what _get_layout returns for its second reply
LayoutResult(layout_response) ==
    IF layout_response = None THEN None          \* TypeError, caught
    ELSE IF HasError(layout_response) THEN None
    ELSE layout_response

GetLayoutLayout ==
    /\ In("_get_layout", "layout")
    /\ Log("_get_layout", 2, LayoutResult(ret) = None,
           LayoutResult(ret), app_handle)
    /\ Return(LayoutResult(ret))
    /\ UNCHANGED <<ws, session, handleOrigin, file, lines, sheet, msg_id,
                   app_handle, app_id, wire, srv, sentIds, issued,
                   badFrames>>

----------------------------------------------------------------------------
(* The list enumerators *)

ListFrame(fn, kind) == [fn |-> fn, pc |-> "items", kind |-> kind]

ListCall(fn, kind) ==
    /\ Begin(<<GetLayoutFrame(Definition(kind)), ListFrame(fn, kind)>>)
    /\ UNCHANGED <<ws, session, handleOrigin, file, lines, sheet, msg_id,
                   app_handle, app_id, ret, wire, srv, sentIds, issued,
                   badFrames>>

get_dimension_list == ListCall("get_dimension_list", "dimension")
get_measure_list   == ListCall("get_measure_list", "measure")
get_var_list       == ListCall("get_var_list", "var")
get_variable_list  == ListCall("get_variable_list", "variable")

ExtractItemsOneLevelShort(layout, key) ==
    Get(Get(Get(layout, "result", EmptyDict), "qLayout", EmptyDict), "qItems", <<>>)

\* layout.get("result", {}).get("qLayout", {}).get(key, {}).get("qItems", [])
ExtractItems(layout, key) ==
    Get(Get(Get(Get(layout, "result", EmptyDict), "qLayout", EmptyDict),
            key, EmptyDict), "qItems", <<>>)

ListFns == {"get_dimension_list", "get_measure_list", "get_var_list",
            "get_variable_list"}

\* layout = await self._get_layout(definition); return layout.get(...)...
\* layout.get on None is an AttributeError that nothing catches
ListLayout ==
    /\ Running /\ Top.fn \in ListFns /\ Top.pc = "items"
    /\ IF ret = None
       THEN Raise
       ELSE Return(ExtractItems(ret, ListKey(Top.kind)))
    /\ UNCHANGED <<ws, session, handleOrigin, file, lines, sheet, msg_id,
                   app_handle, app_id, wire, srv, sentIds, issued, opLog,
                   badFrames>>

----------------------------------------------------------------------------
(* get_dimension and get_measure *)

ItemFrame(fn, id) == [fn |-> fn, pc |-> "start", id |-> id]

ItemFns == {"get_dimension", "get_measure"}

ItemMethod(fn) == IF fn = "get_dimension" THEN "GetDimension" ELSE "GetMeasure"

ItemGet ==
    /\ Running /\ Top.fn \in ItemFns /\ Top.pc = "start"
    /\ _send(ItemMethod(Top.fn), app_handle, [qId |-> Top.id])
    /\ Call(ReceiveFrame, "handle")
    /\ UNCHANGED <<ws, session, handleOrigin, file, lines, sheet, app_handle,
                   app_id, ret, out, srv, issued, opLog, badFrames>>

ItemHandleReply ==
    /\ Running /\ Top.fn \in ItemFns /\ Top.pc = "handle"
    /\ IF Usable(ret)
       THEN /\ _send("GetLayout", QHandle(ret), EmptyDict)
            /\ Call(ReceiveFrame, "layout")
            /\ UNCHANGED <<ret, out, opLog>>
       ELSE /\ Log(Top.fn, 1, TRUE, EmptyDict, app_handle)
            /\ Return(EmptyDict)
            /\ UNCHANGED <<msg_id, wire, sentIds>>
    /\ UNCHANGED <<ws, session, handleOrigin, file, lines, sheet, app_handle,
                   app_id, srv, issued, badFrames>>

\* the second reply makes get_dimension / get_measure take a failure branch:
\* None (TypeError, caught), an error payload, no qLayout (KeyError, caught)
ItemFailed(layout_response) ==
    \/ layout_response = None
    \/ HasError(layout_response)
    \/ ~Has(layout_response.result, "qLayout")

\* return layout_response["result"]["qLayout"], {} on a failure branch
ItemResult(layout_response) ==
    IF ItemFailed(layout_response) THEN EmptyDict
    ELSE layout_response.result.qLayout

ItemLayoutReply ==
    /\ Running /\ Top.fn \in ItemFns /\ Top.pc = "layout"
    /\ Log(Top.fn, 2, ItemFailed(ret), ItemResult(ret),
           app_handle)
    /\ Return(ItemResult(ret))
    /\ UNCHANGED <<ws, session, handleOrigin, file, lines, sheet, msg_id,
                   app_handle, app_id, wire, srv, sentIds, issued,
                   badFrames>>

\* a top-level call of get_dimension(id) or get_measure(id)
get_item ==
    /\ \E fn \in ItemFns, id \in {"d1", "m1"} : Begin(<<ItemFrame(fn, id)>>)
    /\ UNCHANGED <<ws, session, handleOrigin, file, lines, sheet, msg_id,
                   app_handle, app_id, ret, wire, srv, sentIds, issued,
                   badFrames>>

----------------------------------------------------------------------------
(* The detailed enumerators *)

\* Python None in a string slot (the value of .get("qId") for a missing key)
NoneStr == "<None>"

TruthyAlways(value) == TRUE

\* if value: for a string or None
Truthy(value) == value # NoneStr /\ value # ""

RECURSIVE Join(_)
\* ", ".join(tags)
Join(tags) ==
    IF Len(tags) = 0 THEN ""
    ELSE IF Len(tags) = 1 THEN tags[1]
    ELSE tags[1] \o ", " \o Join(Tail(tags))

DetailedFns == {"get_dimension_list_detailed", "get_measure_list_detailed"}

KindOf(fn) == IF fn = "get_dimension_list_detailed" THEN "dimension" ELSE "measure"
ListFnOf(fn) ==
    IF fn = "get_dimension_list_detailed" THEN "get_dimension_list"
    ELSE "get_measure_list"
ItemFnOf(fn) ==
    IF fn = "get_dimension_list_detailed" THEN "get_dimension" ELSE "get_measure"

\* the frame of a detailed enumerator, waiting for its summary list;
\* `fetched` is history: the ids whose detail fetch took no failure branch,
\* `id0` is history: self.msg_id when the enumerator was called
DetailedFrame(fn) ==
    [fn |-> fn, pc |-> "list", items |-> <<>>, i |-> 1, rows |-> <<>>,
     fetched |-> <<>>, id0 |-> msg_id]

\* the frames of a call of a detailed enumerator, innermost first
DetailedCallees(fn) ==
    <<GetLayoutFrame(Definition(KindOf(fn))), ListFrame(ListFnOf(fn), KindOf(fn))>>

get_dimension_list_detailed ==
    /\ Begin(DetailedCallees("get_dimension_list_detailed")
             \o <<DetailedFrame("get_dimension_list_detailed")>>)
    /\ UNCHANGED <<ws, session, handleOrigin, file, lines, sheet, msg_id,
                   app_handle, app_id, ret, wire, srv, sentIds, issued,
                   badFrames>>

get_measure_list_detailed ==
    /\ Begin(DetailedCallees("get_measure_list_detailed")
             \o <<DetailedFrame("get_measure_list_detailed")>>)
    /\ UNCHANGED <<ws, session, handleOrigin, file, lines, sheet, msg_id,
                   app_handle, app_id, ret, wire, srv, sentIds, issued,
                   badFrames>>

\* dimensions = await self.get_dimension_list(); detailed_dimensions = []
DetailedList ==
    /\ Running /\ Top.fn \in DetailedFns /\ Top.pc = "list"
    /\ stack' = <<[Top EXCEPT !.items = ret, !.pc = "loop"]>> \o Tail(stack)
    /\ UNCHANGED <<ws, session, handleOrigin, file, lines, sheet, msg_id,
                   app_handle, app_id, ret, out, wire, srv, sentIds, issued,
                   opLog, badFrames>>

\* dim.get("qInfo", {}).get("qId")
SummaryId(item) == Get(Get(item, "qInfo", EmptyDict), "qId", NoneStr)

\* dim.get("qMeta", {}).get("title", "No Title")
SummaryTitle(item) == Get(Get(item, "qMeta", EmptyDict), "title", "No Title")

\* one turn of the for loop: return after the last item, fetch the details
\* of an item that has an id, skip an item that has none
DetailedLoop ==
    /\ Running /\ Top.fn \in DetailedFns /\ Top.pc = "loop"
    /\ IF Top.i > Len(Top.items)
       THEN Return(Top.rows)
       ELSE /\ IF Truthy(SummaryId(Top.items[Top.i]))
               THEN Call(ItemFrame(ItemFnOf(Top.fn), SummaryId(Top.items[Top.i])),
                         "item")
               ELSE stack' = <<[Top EXCEPT !.i = @ + 1]>> \o Tail(stack)
            /\ UNCHANGED <<ret, out>>
    /\ UNCHANGED <<ws, session, handleOrigin, file, lines, sheet, msg_id,
                   app_handle, app_id, wire, srv, sentIds, issued, opLog,
                   badFrames>>

\* building the row raises (caught by the loop's except): qMeta or its tags
\* is null
RowRaises(layout) ==
    /\ Has(layout, "qMeta")
    /\ \/ layout.qMeta = None
       \/ Has(layout.qMeta, "tags") /\ layout.qMeta.tags = None

\* the row get_dimension_list_detailed appends
DimensionRow(dim_id, dim_title, layout) ==
    LET qDim == Get(layout, "qDim", EmptyDict)
        grouping == Get(qDim, "qGrouping", "N")
    IN <<dim_id,
         dim_title,
         Get(qDim, "descriptionExpression", ""),
         Join(Get(Get(layout, "qMeta", EmptyDict), "tags", <<>>)),
         Get(qDim, "qFieldDefs", ""),
         Get(qDim, "qLabelExpression", ""),
         IF grouping = "M" THEN "multi" ELSE "single">>

\* the row get_measure_list_detailed appends
MeasureRow(measure_id, measure_title, layout) ==
    LET qMeasure == Get(layout, "qMeasure", EmptyDict)
    IN <<measure_id,
         measure_title,
         Join(Get(Get(layout, "qMeta", EmptyDict), "tags", <<>>)),
         Get(qMeasure, "qDef", ""),
         Get(qMeasure, "qLabelExpression", ""),
         Get(qMeasure, "descriptionExpression", "")>>

DetailRow(fn, item, layout) ==
    IF fn = "get_dimension_list_detailed"
    THEN DimensionRow(SummaryId(item), SummaryTitle(item), layout)
    ELSE MeasureRow(SummaryId(item), SummaryTitle(item), layout)

\* layout = await self.get_dimension(dim_id): whatever came back, {} included,
\* is made into a row and appended
DetailedItem ==
    /\ Running /\ Top.fn \in DetailedFns /\ Top.pc = "item"
    /\ LET item == Top.items[Top.i]
           rows == IF RowRaises(ret) THEN Top.rows
                   ELSE Append(Top.rows, DetailRow(Top.fn, item, ret))
           fetched == IF opLog.failed THEN Top.fetched
                      ELSE Append(Top.fetched, SummaryId(item))
       IN stack' = <<[Top EXCEPT !.rows = rows, !.fetched = fetched,
                                 !.i = @ + 1, !.pc = "loop"]>> \o Tail(stack)
    /\ UNCHANGED <<ws, session, handleOrigin, file, lines, sheet, msg_id,
                   app_handle, app_id, ret, out, wire, srv, sentIds, issued,
                   opLog, badFrames>>

\* the frames of a call of get_var_list_detailed, innermost first
VarCallees == <<GetLayoutFrame(Definition("var")), ListFrame("get_var_list", "var")>>

VarFrame == [fn |-> "get_var_list_detailed", pc |-> "list"]

get_var_list_detailed ==
    /\ Begin(VarCallees \o <<VarFrame>>)
    /\ UNCHANGED <<ws, session, handleOrigin, file, lines, sheet, msg_id,
                   app_handle, app_id, ret, wire, srv, sentIds, issued,
                   badFrames>>

\* the row get_var_list_detailed makes of an item
VarRow(item) ==
    <<Get(Get(item, "qInfo", EmptyDict), "qId", ""),
      Get(item, "qName", ""),
      Get(item, "qDefinition", ""),
      Join(Get(Get(item, "qMeta", EmptyDict), "tags", <<>>))>>

\* the list comprehension over raw_vars; it is in no try block
VarDetailed ==
    /\ In("get_var_list_detailed", "list")
    /\ IF \E k \in DOMAIN ret : RowRaises(ret[k])
       THEN Raise
       ELSE Return([k \in DOMAIN ret |-> VarRow(ret[k])])
    /\ UNCHANGED <<ws, session, handleOrigin, file, lines, sheet, msg_id,
                   app_handle, app_id, wire, srv, sentIds, issued, opLog,
                   badFrames>>

----------------------------------------------------------------------------
(* get_masteritems_detailed *)

all_columns ==
    <<"ID", "Title", "Label", "Description", "Expression", "Tags", "Type", "ItemType">>

Range(f) == {f[k] : k \in DOMAIN f}

\* the values of `columns` that calls are made with (only `in` is applied to it)
ColumnChoices == {Range(all_columns), Range(all_columns) \ {"Label"}}

RECURSIVE Selected(_, _)
\* the if "X" in columns: row.append(...) chain over (column, value) pairs
Selected(cells, columns) ==
    IF cells = <<>> THEN <<>>
    ELSE (IF Head(cells)[1] \in columns THEN <<Head(cells)[2]>> ELSE <<>>)
         \o Selected(Tail(cells), columns)

DimensionCells(dim) ==
    <<<<"ID", dim[1]>>, <<"Title", dim[2]>>, <<"Label", dim[6]>>,
      <<"Description", IF Truthy(dim[3]) THEN dim[3] ELSE "">>,
      <<"Expression", dim[5]>>, <<"Tags", dim[4]>>, <<"Type", dim[7]>>,
      <<"ItemType", "Dimension">>>>

\* "Label" of a measure row is read from `dim`, the variable the loop over
\* the dimensions left behind: dim[4] of the last dimension row
MeasureCells(measure, dim) ==
    <<<<"ID", measure[1]>>, <<"Title", measure[2]>>, <<"Label", dim[5]>>,
      <<"Description", IF Truthy(measure[6]) THEN measure[6] ELSE "">>,
      <<"Expression", measure[4]>>, <<"Tags", measure[3]>>, <<"Type", " ">>,
      <<"ItemType", "Measure">>>>

VariableCells(variable) ==
    <<<<"ID", variable[1]>>, <<"Title", variable[2]>>, <<"Label", "">>,
      <<"Description", " ">>, <<"Expression", variable[3]>>,
      <<"Tags", variable[4]>>, <<"Type", " ">>, <<"ItemType", "Variable">>>>

\* `dim` is unbound when the measure loop reads it: there is a measure,
\* "Label" is asked for and the loop over the dimensions never ran
CombineRaises(dimensions, measures, columns) ==
    measures # <<>> /\ "Label" \in columns /\ dimensions = <<>>

\* a row with all columns, standing for `dim` where it is never read
NoRow == <<"", "", "", "", "", "", "">>

\* combined_data
Combined(dimensions, measures, variables, columns) ==
    LET dim == IF dimensions = <<>> THEN NoRow ELSE dimensions[Len(dimensions)]
    IN [k \in DOMAIN dimensions |-> Selected(DimensionCells(dimensions[k]), columns)]
       \o [k \in DOMAIN measures |-> Selected(MeasureCells(measures[k], dim), columns)]
       \o [k \in DOMAIN variables |-> Selected(VariableCells(variables[k]), columns)]

MasterFrame(include_variables, columns) ==
    [fn |-> "get_masteritems_detailed", pc |-> "dimensions",
     include_variables |-> include_variables, columns |-> columns,
     dimensions |-> <<>>, measures |-> <<>>]

get_masteritems_detailed ==
    /\ \E include_variables \in BOOLEAN, columns \in ColumnChoices :
          Begin(DetailedCallees("get_dimension_list_detailed")
                \o <<DetailedFrame("get_dimension_list_detailed"),
                     MasterFrame(include_variables, columns)>>)
    /\ UNCHANGED <<ws, session, handleOrigin, file, lines, sheet, msg_id,
                   app_handle, app_id, ret, wire, srv, sentIds, issued,
                   badFrames>>

\* dimensions = ...; measures = await self.get_measure_list_detailed()
MasterDimensions ==
    /\ In("get_masteritems_detailed", "dimensions")
    /\ CallChain(DetailedCallees("get_measure_list_detailed")
                 \o <<DetailedFrame("get_measure_list_detailed")>>,
                 [Top EXCEPT !.dimensions = ret, !.pc = "measures"])
    /\ UNCHANGED <<ws, session, handleOrigin, file, lines, sheet, msg_id,
                   app_handle, app_id, ret, out, wire, srv, sentIds, issued,
                   opLog, badFrames>>

\* the loops over dimensions, measures and variables; the call ends, and
\* leaves behind the three lists it had enumerated
MasterCombine(dimensions, measures, variables) ==
    /\ stack' = IF CombineRaises(dimensions, measures, Top.columns)
                THEN <<>> ELSE Tail(stack)
    /\ ret' = IF Len(stack) = 1 \/ CombineRaises(dimensions, measures, Top.columns)
              THEN None
              ELSE Combined(dimensions, measures, variables, Top.columns)
    /\ out' = [op |-> "get_masteritems_detailed",
               status |-> IF CombineRaises(dimensions, measures, Top.columns)
                          THEN "raised" ELSE "returned",
               val |-> IF CombineRaises(dimensions, measures, Top.columns)
                       THEN None
                       ELSE Combined(dimensions, measures, variables, Top.columns),
               seen |-> [dimensions |-> dimensions, measures |-> measures,
                         variables |-> variables, columns |-> Top.columns]]

\* measures = ...; variables = await self.get_var_list_detailed() if
\* include_variables else []
MasterMeasures ==
    /\ In("get_masteritems_detailed", "measures")
    /\ IF Top.include_variables
       THEN /\ CallChain(VarCallees \o <<VarFrame>>,
                         [Top EXCEPT !.measures = ret, !.pc = "variables"])
            /\ UNCHANGED <<ret, out>>
       ELSE MasterCombine(Top.dimensions, ret, <<>>)
    /\ UNCHANGED <<ws, session, handleOrigin, file, lines, sheet, msg_id,
                   app_handle, app_id, wire, srv, sentIds, issued, opLog,
                   badFrames>>

MasterVariables ==
    /\ In("get_masteritems_detailed", "variables")
    /\ MasterCombine(Top.dimensions, Top.measures, ret)
    /\ UNCHANGED <<ws, session, handleOrigin, file, lines, sheet, msg_id,
                   app_handle, app_id, wire, srv, sentIds, issued, opLog,
                   badFrames>>

----------------------------------------------------------------------------
(* close *)

\* the outcomes of `if self.ws: await self.ws.close()`: nothing to close, the
\* connection closed, or (closing an open connection) an exception raised
\* with the connection closed or still open
WsCloseOutcomes(w) ==
    CASE w = "None"   -> {[ws |-> "None", raised |-> FALSE]}
      [] w = "closed" -> {[ws |-> "closed", raised |-> FALSE]}
      [] OTHER        -> {[ws |-> "closed", raised |-> FALSE],
                          [ws |-> "closed", raised |-> TRUE],
                          [ws |-> "open", raised |-> TRUE]}

\* self.session after close(): session.close() is reached unless ws.close()
\* raised, which skips to the except branch
SessionAfterClose(s, raised) == IF raised THEN s ELSE "closed"

\* close(): every exception is printed and swallowed, close returns
close ==
    /\ ~Running
    /\ \E o \in WsCloseOutcomes(ws) :
          /\ ws' = o.ws
          /\ session' = SessionAfterClose(session, o.raised)
    /\ out' = [op |-> "close", status |-> "returned", val |-> None,
               seen |-> None]
    /\ opLog' = NoLog
    /\ UNCHANGED <<msg_id, app_handle, app_id, stack, ret, wire, srv,
                   sentIds, issued, badFrames, handleOrigin, file, lines,
                   sheet>>

----------------------------------------------------------------------------
(* FileWriterHelper (src/classes/file_writer_helper.py) *)

\* a str value, and a list value (isinstance(value, list))
Str(text) == [str |-> text]
List(texts) == [list |-> texts]

\* a str longer than maxPerLine, with the lines textwrap.fill breaks it into
Long(text, wrapped) == [str |-> text, wrapped |-> wrapped]

\* field.lower() / key.lower()
Lower(name) ==
    CASE name = "Tags" -> "tags"
      [] name = "ID"   -> "id"
      [] OTHER         -> name

\* key.capitalize()
Capitalize(name) ==
    CASE name = "tags" -> "Tags"
      [] name = "id"   -> "Id"
      [] OTHER         -> name

\* value = ", ".join(value) if value else f"No {field.lower()}", for a list
Shown(value, name) ==
    IF Has(value, "list")
    THEN IF value.list = <<>> THEN "No " \o Lower(name) ELSE Join(value.list)
    ELSE value.str

\* the file after open(self.file_path, "w") and f.write(line + "\n"): mode
\* "w" truncates the file, the line is all it holds
WriteLine(content, line) == <<line>>

RECURSIVE WriteLines(_, _)
\* _write_line called for each of `new`, in order
WriteLines(content, new) ==
    IF new = <<>> THEN content
    ELSE WriteLines(WriteLine(content, Head(new)), Tail(new))

\* write_title(title, spacer)
TitleLines(title, spacer) == <<spacer \o title>>

\* the line for an item with a wrong number of values (after its mark)
FieldsError ==
    "Error: The number of fields does not match the number of values in the current item."

\* the lines print_bullet_from_array writes for one item
BulletItemLines(item, fields) ==
    IF Len(item) # Len(fields) THEN <<FieldsError>>
    ELSE [k \in 1..Len(item) |->
             "   - " \o fields[k] \o ": " \o Shown(item[k], fields[k])] \o <<"">>

RECURSIVE BulletLines(_, _)
BulletLines(data_array, fields) ==
    IF data_array = <<>> THEN <<>>
    ELSE BulletItemLines(Head(data_array), fields)
            \o BulletLines(Tail(data_array), fields)


\* the lines print_single_array writes for one key of `data`
SingleEntryLines(key, value, spacer) ==
    IF Has(value, "wrapped")
    THEN <<spacer \o key \o ":">>
            \o [k \in DOMAIN value.wrapped |-> spacer \o "    " \o value.wrapped[k]]
    ELSE <<spacer \o key \o ": " \o value.str>>

RECURSIVE SingleEntriesLines(_, _)
SingleEntriesLines(data, spacer) ==
    IF data = <<>> THEN <<>>
    ELSE SingleEntryLines(Head(data)[1], Head(data)[2], spacer)
            \o SingleEntriesLines(Tail(data), spacer)

\* print_single_array(data, title, spacer); data.items() as (key, value) pairs
SingleArrayLines(data, title, spacer) ==
    (IF Truthy(title) THEN <<"\n" \o spacer \o title \o ":">> ELSE <<>>)
       \o SingleEntriesLines(data, spacer) \o <<"">>

\* the lines print_array writes for one item (a dict, as (key, value) pairs)
ArrayItemLines(item) ==
    [k \in DOMAIN item |->
        "   - " \o Capitalize(item[k][1]) \o ": " \o Shown(item[k][2], item[k][1])]
       \o <<"">>

RECURSIVE ArrayItemsLines(_)
ArrayItemsLines(data_array) ==
    IF data_array = <<>> THEN <<>>
    ELSE ArrayItemLines(Head(data_array)) \o ArrayItemsLines(Tail(data_array))

\* print_array(data_array, title)
ArrayLines(data_array, title) ==
    (IF Truthy(title) THEN <<"\n" \o title \o ":">> ELSE <<>>)
       \o ArrayItemsLines(data_array)

\* the calls of _write_line that one method of the helper makes
Write(new) ==
    /\ Len(lines) + Len(new) <= MaxLines
    /\ file' = WriteLines(file, new)
    /\ lines' = lines \o new
    /\ UNCHANGED <<ws, session, msg_id, app_handle, app_id, stack, ret, out,
                   wire, srv, sentIds, issued, opLog, badFrames,
                   handleOrigin, sheet>>

\* the arguments the methods are called with
Titles == {"Variables", NoneStr}
Spacers == {"", "   "}
BulletFields == <<"ID", "Tags">>
BulletItems == {<<Str("d1"), List(<<"sales", "kpi">>)>>,
                <<Str("d2"), List(<<>>)>>,
                <<Str("d3")>>}
SingleData == {<<>>,
               <<<<"name", Str("Sales")>>>>,
               <<<<"name", Str("Sales")>>,
                 <<"description", Long("a long text", <<"a long", "text">>)>>>>}
ArrayItems == {<<<<"id", Str("v1")>>, <<"tags", List(<<>>)>>>>,
               <<<<"id", Str("v2")>>, <<"tags", List(<<"a", "b">>)>>>>}

write_title ==
    \E title \in Titles \ {NoneStr}, spacer \in Spacers :
        Write(TitleLines(title, spacer))

print_bullet_from_array ==
    \E data_array \in SeqsUpTo(BulletItems, MaxItems) :
        Write(BulletLines(data_array, BulletFields))

print_single_array ==
    \E data \in SingleData, title \in Titles, spacer \in Spacers :
        Write(SingleArrayLines(data, title, spacer))

print_array ==
    \E data_array \in SeqsUpTo(ArrayItems, MaxItems), title \in Titles :
        Write(ArrayLines(data_array, title))

----------------------------------------------------------------------------
(* export_masteritems (src/export_masteritems.py) *)

\* the header row of sheet "Masteritems"
export_columns ==
    <<"ID", "Title", "Description", "Expression", "Tags", "Type", "ItemType">>

\* val.startswith(("=", "+", "-", "/", "*")), for the values an engine of
\* this model produces: the expressions of the measures
StartsWithFormulaChar(val) ==
    val \in {"=Sum(" \o id \o ")" : id \in ItemIds("qMeasureList")}

\* sanitize_excel_value(value): a leading ' keeps Excel from reading a formula
sanitize_excel_value(value) ==
    IF StartsWithFormulaChar(value) THEN "'" \o value ELSE value

\* the cells A..G that the loop over app_master_info writes for one item:
\* item[0] .. item[6]
SheetRow(item) ==
    <<item[1], item[2], sanitize_excel_value(item[3]),
      sanitize_excel_value(item[4]), sanitize_excel_value(item[5]),
      sanitize_excel_value(item[6]), sanitize_excel_value(item[7])>>

ExportFrame == [fn |-> "export_masteritems", pc |-> "connected"]

\* export_masteritems(): a new QlikWrapper, then connect(APP_ID), which
\* returns whether or not ws_connect raised
export_masteritems ==
    /\ ~Running
    /\ ws = "None" /\ session = "open" /\ msg_id = 0
    /\ \E a \in AppIds : app_id' = a
    /\ out' = NoOutcome
    /\ opLog' = NoLog
    /\ \/ /\ stack' = <<ExportFrame>>
          /\ UNCHANGED <<ws, wire, srv, handleOrigin>>
       \/ /\ ws' = "open"
          /\ wire' = <<>>
          /\ srv' = NoServer
          /\ stack' = <<[fn |-> "_open_doc", pc |-> "start"], ExportFrame>>
          /\ handleOrigin' = Earlier(handleOrigin)
    /\ UNCHANGED <<session, file, lines, sheet, msg_id, app_handle, ret,
                   sentIds, issued, badFrames>>

\* app_master_info = await qlik.get_masteritems_detailed()
ExportConnected ==
    /\ In("export_masteritems", "connected")
    /\ CallChain(DetailedCallees("get_dimension_list_detailed")
                 \o <<DetailedFrame("get_dimension_list_detailed"),
                      MasterFrame(TRUE, Range(all_columns))>>,
                 [Top EXCEPT !.pc = "rows"])
    /\ UNCHANGED <<ws, session, handleOrigin, file, lines, sheet, msg_id,
                   app_handle, app_id, ret, out, wire, srv, sentIds, issued,
                   opLog, badFrames>>

\* the header and one row per item are written to the sheet, the workbook
\* is saved, and the wrapper is closed
ExportWrite ==
    /\ In("export_masteritems", "rows")
    /\ sheet' = <<export_columns>> \o [k \in DOMAIN ret |-> SheetRow(ret[k])]
    /\ \E o \in WsCloseOutcomes(ws) :
          /\ ws' = o.ws
          /\ session' = SessionAfterClose(session, o.raised)
    /\ Return(None)
    /\ UNCHANGED <<handleOrigin, file, lines, msg_id, app_handle, app_id,
                   wire, srv, sentIds, issued, opLog, badFrames>>

----------------------------------------------------------------------------
Init ==
    /\ ws = "None"
    /\ session = "open"
    /\ msg_id = 0
    /\ app_handle = NoHandle
    /\ app_id = ""
    /\ stack = <<>>
    /\ ret = None
    /\ out = NoOutcome
    /\ wire = <<>>
    /\ srv = NoServer
    /\ sentIds = <<>>
    /\ issued = {}
    /\ opLog = NoLog
    /\ badFrames = 0
    /\ handleOrigin = "none"
    /\ file = <<>>
    /\ lines = <<>>
    /\ sheet = <<>>

Next ==
    \/ connect \/ OpenDocSend \/ OpenDocReply
    \/ _receive
    \/ GetLayoutCreate \/ GetLayoutCreated \/ GetLayoutLayout
    \/ get_dimension_list \/ get_measure_list \/ get_var_list \/ get_variable_list
    \/ ListLayout
    \/ get_item \/ ItemGet \/ ItemHandleReply \/ ItemLayoutReply

Spec == Init /\ [][Next]_vars

\* the enumerators that fetch details, on a wrapper that connects first
EnumNext ==
    \/ connect \/ OpenDocSend \/ OpenDocReply
    \/ _receive
    \/ GetLayoutCreate \/ GetLayoutCreated \/ GetLayoutLayout
    \/ ListLayout
    \/ ItemGet \/ ItemHandleReply \/ ItemLayoutReply
    \/ get_dimension_list_detailed \/ get_measure_list_detailed
    \/ DetailedList \/ DetailedLoop \/ DetailedItem
    \/ get_var_list_detailed \/ VarDetailed
    \/ get_masteritems_detailed
    \/ MasterDimensions \/ MasterMeasures \/ MasterVariables

EnumSpec == Init /\ [][EnumNext]_vars

\* the two enumerators that fetch the details of each master item
DetailNext ==
    \/ connect \/ OpenDocSend \/ OpenDocReply
    \/ _receive
    \/ GetLayoutCreate \/ GetLayoutCreated \/ GetLayoutLayout
    \/ ListLayout
    \/ ItemGet \/ ItemHandleReply \/ ItemLayoutReply
    \/ get_dimension_list_detailed \/ get_measure_list_detailed
    \/ DetailedList \/ DetailedLoop \/ DetailedItem

DetailSpec == Init /\ [][DetailNext]_vars

\* the life of one wrapper: connect, one enumerator, close, in any order
LifeNext ==
    \/ connect \/ OpenDocSend \/ OpenDocReply
    \/ _receive
    \/ GetLayoutCreate \/ GetLayoutCreated \/ GetLayoutLayout
    \/ get_dimension_list \/ ListLayout
    \/ close

LifeSpec == Init /\ [][LifeNext]_vars

\* a server that answers every request it receives with a 'result' or an
\* 'error' reply and sends nothing else; the client goes on whenever it can
AnsweredNext ==
    \/ connect \/ OpenDocSend \/ OpenDocReply
    \/ ReceiveReply \/ ReceiveNoWs
    \/ GetLayoutCreate \/ GetLayoutCreated \/ GetLayoutLayout
    \/ get_dimension_list \/ ListLayout
    \/ get_item \/ ItemGet \/ ItemHandleReply \/ ItemLayoutReply

AnsweredSpec == Init /\ [][AnsweredNext]_vars /\ WF_vars(AnsweredNext)

\* one run of the export script
ExportNext ==
    \/ export_masteritems \/ ExportConnected \/ ExportWrite
    \/ OpenDocSend \/ OpenDocReply
    \/ _receive
    \/ GetLayoutCreate \/ GetLayoutCreated \/ GetLayoutLayout
    \/ ListLayout
    \/ ItemGet \/ ItemHandleReply \/ ItemLayoutReply
    \/ DetailedList \/ DetailedLoop \/ DetailedItem
    \/ VarDetailed
    \/ MasterDimensions \/ MasterMeasures \/ MasterVariables

ExportSpec == Init /\ [][ExportNext]_vars

\* one FileWriterHelper and the calls of its methods, in any order
WriterNext ==
    \/ write_title \/ print_bullet_from_array
    \/ print_single_array \/ print_array

WriterSpec == Init /\ [][WriterNext]_vars

\* the same with progress: the client goes on whenever it has a step to take,
\* and a frame is delivered whenever the connection can deliver one
LifeLive == LifeSpec /\ WF_vars(LifeNext)

----------------------------------------------------------------------------
(* Properties *)

ResolverFns == {"_open_doc", "_get_layout", "get_dimension", "get_measure"}

\* the caller of _receive has just been handed what _receive returned
AwaitedReply ==
    Running /\ Top.fn \in ResolverFns /\ Top.pc \in {"reply", "created", "handle", "layout"}

\* C1: the ids that _send puts into its messages are 1, 2, 3, ... in the
\* order of the calls: strictly increasing, no gap, none used twice.
SequenceIdsConsecutive == \A i \in DOMAIN sentIds : sentIds[i] = i

SequenceIdsWitness == Len(sentIds) >= 4 /\ msg_id = Len(sentIds)

\* C2: at most one transmitted request is waiting for its reply to be
\* consumed by _receive.
SingleOutstandingRequest == Len(wire) <= 1

\* C3: the envelope _receive hands to its caller is the reply to the request
\* of the _send just before it: its id is the id that _send returned.
ReplyMatchesRequest == (AwaitedReply /\ ret # None) => ret.id = msg_id

\* C4: an operation whose reply carries an 'error' key yields nothing, also
\* when the reply carries a 'result' as well: _open_doc leaves app_handle as
\* it was, _get_layout returns None, get_dimension / get_measure return {}.
ErrorNeverYields ==
    (opLog.fn # "none" /\ opLog.reply # None /\ Has(opLog.reply, "error")) =>
        /\ opLog.fn = "_open_doc" => opLog.h1 = opLog.h0
        /\ opLog.fn = "_get_layout" => opLog.val = None
        /\ opLog.fn \in ItemFns => opLog.val = EmptyDict

\* a second reply with both keys and a full layout made get_measure return {}
ErrorNeverYieldsWitness ==
    /\ opLog.fn = "get_measure" /\ opLog.step = 2
    /\ opLog.reply # None
    /\ Has(opLog.reply, "error") /\ Has(opLog.reply, "result")
    /\ Has(opLog.reply.result, "qLayout")
    /\ opLog.val = EmptyDict

\* the ids in the first column of the rows
RowIds(rows) == [k \in DOMAIN rows |-> rows[k][1]]

\* C5: the rows of a detailed enumerator are those of the items whose detail
\* fetch did not fail, in summary-list order: a failed fetch adds no row.
FailedFetchAddsNoRow ==
    \A k \in DOMAIN stack :
        stack[k].fn \in DetailedFns => RowIds(stack[k].rows) = stack[k].fetched

\* C6: a list enumerator whose _get_layout failed returns the empty list and
\* does not raise.
ListEmptyOnLayoutFailure ==
    (out.op \in ListFns /\ opLog.fn = "_get_layout" /\ opLog.val = None) =>
        (out.status = "returned" /\ out.val = <<>>)

\* the layout _get_layout returned has an item list under the key
HasItems(layout, key) ==
    /\ Has(layout, "result") /\ Has(layout.result, "qLayout")
    /\ Has(layout.result.qLayout, key)
    /\ Has(layout.result.qLayout[key], "qItems")

ListKeyOf(fn) ==
    CASE fn = "get_dimension_list" -> "qDimensionList"
      [] fn = "get_measure_list"   -> "qMeasureList"
      [] OTHER                     -> "qVariableList"

\* C7: when both RPCs of _get_layout succeeded, a list enumerator returns the
\* qItems of the layout as the server sent them, and the empty list when the
\* layout has no qItems, no q*List or no qLayout.
ListIsServerItems ==
    (out.op \in ListFns /\ opLog.fn = "_get_layout" /\ opLog.step = 2
       /\ opLog.reply # None /\ ~Has(opLog.reply, "error")) =>
        /\ out.status = "returned"
        /\ out.val = IF HasItems(opLog.reply, ListKeyOf(out.op))
                     THEN opLog.reply.result.qLayout[ListKeyOf(out.op)].qItems
                     ELSE <<>>

\* a layout without qLayout gave the empty list
ListIsServerItemsWitness ==
    /\ out.op = "get_var_list" /\ out.status = "returned" /\ out.val = <<>>
    /\ opLog.fn = "_get_layout" /\ opLog.step = 2
    /\ opLog.reply # None /\ ~Has(opLog.reply, "error")
    /\ ~Has(opLog.reply.result, "qLayout")

\* two items came back in server order
ListInServerOrder ==
    /\ out.op = "get_dimension_list" /\ out.status = "returned"
    /\ Len(out.val) = 2
    /\ out.val = opLog.reply.result.qLayout.qDimensionList.qItems

\* the rows k of `rows` from position `from` on are those of `items`, each with
\* the item's id first and `type` last
GroupIs(rows, from, items, type) ==
    \A k \in DOMAIN items :
        /\ rows[from + k][1] = items[k][1]
        /\ rows[from + k][Len(rows[from + k])] = type

\* C8: get_masteritems_detailed returns one row per enumerated item, the
\* dimension rows first, then the measure rows, then the variable rows, each
\* group in its enumeration order and with its ItemType.
MasterItemsGrouped ==
    (out.op = "get_masteritems_detailed" /\ out.seen # None) =>
        /\ out.status = "returned"
        /\ Len(out.val) = Len(out.seen.dimensions) + Len(out.seen.measures)
                            + Len(out.seen.variables)
        /\ GroupIs(out.val, 0, out.seen.dimensions, "Dimension")
        /\ GroupIs(out.val, Len(out.seen.dimensions), out.seen.measures, "Measure")
        /\ GroupIs(out.val, Len(out.seen.dimensions) + Len(out.seen.measures),
                   out.seen.variables, "Variable")

\* C9: when a CLOSE frame or an ERROR frame reaches _receive (the connection
\* is closed by it), _receive ends and hands None to its caller.
ReceiveEndsOnClose ==
    [][(Receiving /\ ws = "open" /\ ws' = "closed") =>
          (stack' = Tail(stack) /\ ret' = None)]_vars

\* C10: the handle of every transmitted request is -1 or a qHandle that a
\* reply has carried.
HandlesComeFromServer ==
    \A i \in DOMAIN wire : wire[i].handle = GlobalHandle \/ wire[i].handle \in issued

\* the requests that carry self.app_handle
DocMethods == {"CreateSessionObject", "GetDimension", "GetMeasure"}

\* C11: no request transmitted on the current connection carries a document
\* handle that was obtained on an earlier connection.
HandleStaysOnItsConnection ==
    \A i \in DOMAIN wire :
        (wire[i].method \in DocMethods /\ wire[i].handle # NoHandle) =>
            handleOrigin # "earlier"

\* C12: close() never raises, and a close() that follows a close() leaves
\* the wrapper as the first one left it.
CloseIsIdempotent ==
    [][(out.op = "close" /\ out'.op = "close") =>
          (out'.status = "returned" /\ ws' = ws /\ session' = session)]_vars

\* C13: after close() has returned, the WebSocket is not open and the HTTP
\* client session is closed.
CloseClosesBoth ==
    (out.op = "close" /\ out.status = "returned") =>
        (ws # "open" /\ session = "closed")

\* C14: once close() has closed the session, no request is transmitted any
\* more, and every operation that is running comes to an end.
ClosedIsFinal ==
    /\ [][session = "closed" => Len(wire') <= Len(wire)]_vars
    /\ (session = "closed" /\ Running) ~> ~Running

\* C15: a connect() whose ws_connect failed raises towards its caller and
\* leaves no session behind: self.ws and self.app_handle are unset.
ConnectFailureRaises ==
    out.op = "connect" =>
        (out.status = "raised" /\ ws = "None" /\ app_handle = NoHandle)

\* C16: a caller awaits a reply only for a request that was transmitted: a
\* failed _send stops its caller before it calls _receive.
AwaitsOnlyTransmitted ==
    Receiving => \E i \in DOMAIN wire : wire[i].id = msg_id

\* C17: a _send whose write fails takes a sequence id all the same: msg_id
\* goes up by exactly one and that value is what _send returns.
FailedSendConsumesId ==
    [][(sentIds' # sentIds /\ wire' = wire) =>
          (msg_id' = msg_id + 1 /\ sentIds' = Append(sentIds, msg_id + 1))]_vars

\* two requests on a wrapper without a WebSocket: both writes failed, and the
\* second request was given the id after the first
FailedSendConsumesIdWitness ==
    ws = "None" /\ wire = <<>> /\ sentIds = <<1, 2>> /\ msg_id = 2

\* a step of _get_layout that has been handed no reply or an error payload
LayoutStepFailed(pc) ==
    In("_get_layout", pc) /\ (ret = None \/ Has(ret, "error"))

\* C18: _get_layout returns None when either of its two steps fails, and
\* after a failed CreateSessionObject it sends nothing more: GetLayout is not
\* requested and no further sequence id is taken.
GetLayoutFailsWhole ==
    [][/\ LayoutStepFailed("created") =>
             /\ stack' = Tail(stack) /\ ret' = None
             /\ msg_id' = msg_id /\ sentIds' = sentIds /\ wire' = wire
       /\ LayoutStepFailed("layout") =>
             (stack' = Tail(stack) /\ ret' = None)]_vars

\* a call on an opened document whose CreateSessionObject got an error
\* payload: the call took the one id after OpenDoc's and failed
GetLayoutFailsWholeWitness ==
    /\ out.op = "get_dimension_list" /\ out.status = "raised"
    /\ opLog.fn = "_get_layout" /\ opLog.step = 1 /\ opLog.val = None
    /\ Has(opLog.reply, "error")
    /\ handleOrigin = "current" /\ sentIds = <<1, 2>>

\* C19: an envelope that _receive returns is a message the channel delivered:
\* the connection was open, a request was waiting for its reply, and the
\* envelope is that reply as the engine gave it; with no channel or no request
\* waiting, _receive returns no envelope.
ReceiveNeverFabricates ==
    [][(Receiving /\ stack' = Tail(stack) /\ ret' # None) =>
          /\ ws = "open" /\ wire # <<>>
          /\ ret' \in Replies(Head(wire), srv)
          /\ wire' = Tail(wire)]_vars

\* the caller of _receive holds the reply to its request
ReceiveNeverFabricatesWitness ==
    AwaitedReply /\ ret # None /\ Has(ret, "result") /\ ret.id = msg_id

\* without a WebSocket the caller was handed None
ReceiveNothingWithoutChannel ==
    AwaitedReply /\ ws = "None" /\ ret = None /\ msg_id = 1

\* C20: the file holds every line handed to _write_line so far, in the order
\* written: no later write loses an earlier line.
FileKeepsEveryLine == file = lines

\* the cells of a measure row with its "Label" taken from the measure itself
OwnMeasureCells(measure) ==
    [MeasureCells(measure, NoRow) EXCEPT ![3] = <<"Label", measure[5]>>]

\* C21: get_masteritems_detailed returns normally for every choice of columns
\* and every combination of enumerated items, and each row holds, for the
\* requested columns in their fixed order, the values of that row's own item.
MasterRowsFromOwnItem ==
    (out.op = "get_masteritems_detailed" /\ out.seen # None) =>
        /\ out.status = "returned"
        /\ out.val =
              [k \in DOMAIN out.seen.dimensions |->
                  Selected(DimensionCells(out.seen.dimensions[k]), out.seen.columns)]
              \o [k \in DOMAIN out.seen.measures |->
                  Selected(OwnMeasureCells(out.seen.measures[k]), out.seen.columns)]
              \o [k \in DOMAIN out.seen.variables |->
                  Selected(VariableCells(out.seen.variables[k]), out.seen.columns)]

EnumeratorFns == ListFns \cup DetailedFns \cup {"get_var_list_detailed"}

\* C22: an enumerator whose replies were all 'result' envelopes does not
\* raise: a field that is missing or null in a reply or a layout counts as
\* an absent value.
MalformedNeverRaises ==
    (out.op \in EnumeratorFns /\ opLog.fn # "none"
       /\ opLog.reply # None /\ ~Has(opLog.reply, "error")) =>
        out.status = "returned"

\* the independent failure: every reply was well-formed down to the item,
\* and the null qMeta of a variable made get_var_list_detailed raise
NullMetaRaises ==
    /\ out.op = "get_var_list_detailed" /\ out.status = "raised"
    /\ opLog.fn = "_get_layout" /\ opLog.val # None

\* the request a step has just transmitted is the last one of wire'
Transmitted(method, handle, params) ==
    wire' = Append(wire, Message(msg_id + 1, method, handle, params))

\* C23: every request of a two-step fetch that reaches the channel is the
\* one its step of the code builds: CreateSessionObject / GetDimension /
\* GetMeasure on self.app_handle with {qProp: definition} / {qId: id}, sent at
\* the start of the fetch; GetLayout on the qHandle of the reply that _receive
\* handed to the fetch for its first request, sent only once that reply is
\* there.
FetchThreadsHandles ==
    [][Len(wire') > Len(wire) =>
          LET m == wire'[Len(wire')]
          IN CASE m.method = "CreateSessionObject" ->
                    /\ In("_get_layout", "start")
                    /\ Transmitted("CreateSessionObject", app_handle,
                                   [qProp |-> Top.definition])
               [] m.method \in {"GetDimension", "GetMeasure"} ->
                    /\ Top.fn \in ItemFns /\ Top.pc = "start"
                    /\ m.method = ItemMethod(Top.fn)
                    /\ Transmitted(m.method, app_handle, [qId |-> Top.id])
               [] m.method = "GetLayout" ->
                    /\ Top.fn \in {"_get_layout"} \cup ItemFns
                    /\ Top.pc \in {"created", "handle"}
                    /\ ret # None /\ ~Has(ret, "error")
                    /\ Transmitted("GetLayout", ret.result.qReturn.qHandle,
                                   EmptyDict)
               [] OTHER -> m.method = "OpenDoc"]_vars

\* the GetLayout of a get_measure is on the wire with the handle the
\* GetMeasure reply carried, and that reply is off the wire
FetchThreadsHandlesWitness ==
    /\ Receiving /\ Len(stack) >= 2
    /\ stack[2].fn = "get_measure" /\ stack[2].pc = "layout"
    /\ wire = <<Message(msg_id, "GetLayout", ItemHandle, EmptyDict)>>

RECURSIVE IdsOf(_)
\* the ids of the items of a summary list that have one, in list order
IdsOf(items) ==
    IF items = <<>> THEN <<>>
    ELSE (IF SummaryId(Head(items)) \in {NoneStr, ""} THEN <<>>
          ELSE <<SummaryId(Head(items))>>) \o IdsOf(Tail(items))

\* a detailed enumerator is through its loop and no detail fetch failed
EnumeratedAll ==
    /\ Running /\ Top.fn \in DetailedFns /\ Top.pc = "loop"
    /\ Top.i > Len(Top.items)
    /\ Len(Top.fetched) = Len(IdsOf(Top.items))

\* C24: a detailed enumeration whose fetches all succeeded has sent two
\* requests for the summary list and two for each item that has an id, those
\* in summary-list order, and none for an item without an id, whatever was
\* fetched by earlier calls.
NothingIsCached ==
    EnumeratedAll =>
        /\ msg_id = Top.id0 + 2 + 2 * Len(IdsOf(Top.items))
        /\ Top.fetched = IdsOf(Top.items)

\* a second enumeration (ids 1..5 were used before it) over one item with an
\* id and one without has sent four requests of its own
NothingIsCachedWitness ==
    /\ EnumeratedAll
    /\ Top.id0 = 5 /\ msg_id = 9
    /\ Len(Top.items) = 2 /\ Top.fetched = <<"d1">>

\* C25: what _receive returns is the first delivered TEXT message with a
\* 'result' or an 'error' key, an error envelope included (it is returned,
\* the caller goes on); a TEXT message with neither key is passed over: the
\* loop goes on, nothing is returned and nothing else changes.
ReceiveReturnsFirstReply ==
    [][Receiving =>
          /\ (stack' = Tail(stack) /\ ret' # None) =>
                /\ Has(ret', "result") \/ Has(ret', "error")
                /\ wire # <<>> /\ ret'.id = Head(wire).id
          /\ (Len(stack') = Len(stack) /\ stack' # stack) =>
                /\ stack' = <<[Top EXCEPT !.skipped = TRUE]>> \o Tail(stack)
                /\ ret' = ret /\ wire' = wire /\ out' = out]_vars

\* _receive has passed over a notification and still waits for the reply
ReceiveReturnsFirstReplyWitness ==
    Receiving /\ Top.skipped /\ ws = "open" /\ Len(wire) = 1

\* an error envelope came back to the caller as a value
ErrorEnvelopeReturned ==
    AwaitedReply /\ ret # None /\ Has(ret, "error") /\ ~Has(ret, "result")

\* C26: with a server that answers every request it receives, every call
\* that has begun comes to its end.
EveryCallReturns == Running ~> ~Running

\* the position of a column in the rows of get_masteritems_detailed()
ColumnIndex(name) == CHOOSE j \in DOMAIN all_columns : all_columns[j] = name

\* C27: when export_masteritems writes the sheet, the first row is the
\* header and the cell of every data row under each header is the value
\* that get_masteritems_detailed gave that item for the column of that name
\* (protected against being read as a formula, from the third column on).
SheetAlignedWithHeader ==
    [][sheet' # sheet =>
          /\ sheet'[1] = export_columns
          /\ Len(sheet') = Len(ret) + 1
          /\ \A k \in DOMAIN ret : \A j \in DOMAIN export_columns :
                LET value == ret[k][ColumnIndex(export_columns[j])]
                IN sheet'[k + 1][j] =
                      IF j <= 2 THEN value ELSE sanitize_excel_value(value)]_vars

====
